---- MODULE Spec2Model ----
(***************************************************************************)
(* Model of the Chrome extension analyzer (ChromeExtensionAnalyzer) and    *)
(* the preview screen (ExtensionRunner).                                   *)
(*                                                                         *)
(* Names of archive members are sequences of one-character strings, file   *)
(* contents are sequences of byte values, decoded text is a sequence of    *)
(* UTF-16 code units.                                                      *)
(***************************************************************************)
EXTENDS Integers, Sequences, FiniteSets, TLC

VARIABLES
    route,          \* the screen the router shows: "/" or "/runner"
    files,          \* useState<ExtensionFile[]>([])
    manifest,       \* useState<ManifestData | null>(null)
    selectedFile,   \* useState<ExtensionFile | null>(null)
    isProcessing,   \* useState(false)
    toasts,         \* the toast shown last by the analyzer
    tasks,          \* the handleFileUpload calls suspended at an await
    uploads,        \* number of handleFileUpload calls made so far
    last,           \* the handleFileUpload call that returned last
    locationState,  \* location.state?.extensionData of the runner's route
    extensionData,  \* useState<ExtensionData | null>(null)
    isRunning,      \* useState(false)
    extensionUrl,   \* useState<string>(''), 0 stands for ''
    runner,         \* "mounted", "ready", "redirected", "left", "crashed"
    liveUrls,       \* object URLs created and not revoked
    urlsCreated     \* number of URL.createObjectURL calls so far

vars == <<route, files, manifest, selectedFile, isProcessing, toasts, tasks,
          uploads, last, locationState, extensionData, isRunning,
          extensionUrl, runner, liveUrls, urlsCreated>>

analyzerVars == <<files, manifest, selectedFile, isProcessing, toasts, tasks,
                  uploads, last>>

runnerVars == <<locationState, extensionData, isRunning, extensionUrl, runner>>

-----------------------------------------------------------------------------
(* Bounds of the model *)

MaxUploads == 3
MaxUrls == 3

-----------------------------------------------------------------------------
(* JavaScript values *)

Null == [t |-> "null"]

Min(a, b) == IF a < b THEN a ELSE b
Max(a, b) == IF a > b THEN a ELSE b

\* String.prototype.endsWith
EndsWith(s, suffix) ==
    /\ Len(s) >= Len(suffix)
    /\ SubSeq(s, Len(s) - Len(suffix) + 1, Len(s)) = suffix

UpperChars == <<"A","B","C","D","E","F","G","H","I","J","K","L","M",
                "N","O","P","Q","R","S","T","U","V","W","X","Y","Z">>
LowerChars == <<"a","b","c","d","e","f","g","h","i","j","k","l","m",
                "n","o","p","q","r","s","t","u","v","w","x","y","z">>

\* the case folding of the regular expression's i flag, per character
ToLowerChar(c) ==
    IF \E i \in 1..Len(UpperChars) : UpperChars[i] = c
    THEN LowerChars[CHOOSE i \in 1..Len(UpperChars) : UpperChars[i] = c]
    ELSE c

ToLower(s) == [i \in 1..Len(s) |-> ToLowerChar(s[i])]

TextExtensions ==
    { <<"j","s","o","n">>, <<"j","s">>, <<"h","t","m","l">>,
      <<"c","s","s">>, <<"t","x","t">>, <<"m","d">> }

\* the regular expression without its i flag
IsTextNameCaseSensitive(fileName) ==
    \E ext \in TextExtensions : EndsWith(fileName, <<".">> \o ext)

\* /\.(json|js|html|css|txt|md)$/i.test(fileName)
IsTextName(fileName) ==
    \E ext \in TextExtensions : EndsWith(ToLower(fileName), <<".">> \o ext)

-----------------------------------------------------------------------------
(* zipEntry.async('text'): UTF-8 bytes to UTF-16 code units *)

IsCont(bytes, i) == i <= Len(bytes) /\ bytes[i] >= 128 /\ bytes[i] <= 191

RECURSIVE Utf8DecodeFrom(_, _)
Utf8DecodeFrom(bytes, i) ==
    IF i > Len(bytes) THEN << >>
    ELSE LET b == bytes[i] IN
         IF b < 128 THEN <<b>> \o Utf8DecodeFrom(bytes, i + 1)
         ELSE IF b >= 194 /\ b <= 223 /\ IsCont(bytes, i + 1)
         THEN <<(b - 192) * 64 + (bytes[i + 1] - 128)>>
              \o Utf8DecodeFrom(bytes, i + 2)
         ELSE IF b >= 224 /\ b <= 239 /\ IsCont(bytes, i + 1)
                 /\ IsCont(bytes, i + 2)
         THEN <<(b - 224) * 4096 + (bytes[i + 1] - 128) * 64
                 + (bytes[i + 2] - 128)>>
              \o Utf8DecodeFrom(bytes, i + 3)
         ELSE IF b >= 240 /\ b <= 244 /\ IsCont(bytes, i + 1)
                 /\ IsCont(bytes, i + 2) /\ IsCont(bytes, i + 3)
         THEN LET cp == (b - 240) * 262144 + (bytes[i + 1] - 128) * 4096
                        + (bytes[i + 2] - 128) * 64 + (bytes[i + 3] - 128)
                        - 65536
              IN <<55296 + (cp \div 1024), 56320 + (cp % 1024)>>
                 \o Utf8DecodeFrom(bytes, i + 4)
         ELSE <<65533>> \o Utf8DecodeFrom(bytes, i + 1)

Utf8Decode(bytes) == Utf8DecodeFrom(bytes, 1)

-----------------------------------------------------------------------------
(* JSON.parse, for the JSON texts built of objects, strings without        *)
(* escapes, unsigned integers and null.  A parse yields [ok, v, next].     *)

ParseFail == [ok |-> FALSE, v |-> Null, next |-> 0]

IsWs(c) == c \in {32, 9, 10, 13}
IsDigit(c) == c >= 48 /\ c <= 57

RECURSIVE SkipWs(_, _)
SkipWs(s, i) == IF i <= Len(s) /\ IsWs(s[i]) THEN SkipWs(s, i + 1) ELSE i

\* index of the closing quote of the string whose first character is at i
RECURSIVE StringEnd(_, _)
StringEnd(s, i) ==
    IF i > Len(s) THEN 0
    ELSE IF s[i] = 34 THEN i
    ELSE IF s[i] < 32 \/ s[i] = 92 THEN 0
    ELSE StringEnd(s, i + 1)

ParseString(s, i) ==
    IF i > Len(s) \/ s[i] # 34 THEN ParseFail
    ELSE LET e == StringEnd(s, i + 1) IN
         IF e = 0 THEN ParseFail
         ELSE [ok |-> TRUE,
               v |-> [t |-> "str", s |-> SubSeq(s, i + 1, e - 1)],
               next |-> e + 1]

RECURSIVE DigitsEnd(_, _)
DigitsEnd(s, i) ==
    IF i <= Len(s) /\ IsDigit(s[i]) THEN DigitsEnd(s, i + 1) ELSE i

RECURSIVE DigitsValue(_, _, _)
DigitsValue(s, i, e) ==
    IF e <= i THEN 0 ELSE DigitsValue(s, i, e - 1) * 10 + (s[e - 1] - 48)

ParseNumber(s, i) ==
    LET e == DigitsEnd(s, i) IN
    IF e = i \/ (s[i] = 48 /\ e > i + 1) THEN ParseFail
    ELSE [ok |-> TRUE, v |-> [t |-> "num", n |-> DigitsValue(s, i, e)],
          next |-> e]

ParseNull(s, i) ==
    IF i + 3 <= Len(s) /\ SubSeq(s, i, i + 3) = <<110, 117, 108, 108>>
    THEN [ok |-> TRUE, v |-> Null, next |-> i + 4]
    ELSE ParseFail

RECURSIVE ParseValue(_, _)
RECURSIVE ParseMembers(_, _, _)

\* the members of an object after its opening brace or after a comma
ParseMembers(s, i, acc) ==
    LET k == ParseString(s, SkipWs(s, i)) IN
    IF ~k.ok THEN ParseFail
    ELSE LET c == SkipWs(s, k.next) IN
         IF c > Len(s) \/ s[c] # 58 THEN ParseFail
         ELSE LET val == ParseValue(s, c + 1) IN
              IF ~val.ok THEN ParseFail
              ELSE LET d == SkipWs(s, val.next)
                       got == Append(acc, [k |-> k.v.s, v |-> val.v])
                   IN IF d > Len(s) THEN ParseFail
                      ELSE IF s[d] = 125
                      THEN [ok |-> TRUE, v |-> [t |-> "obj", m |-> got],
                            next |-> d + 1]
                      ELSE IF s[d] = 44 THEN ParseMembers(s, d + 1, got)
                      ELSE ParseFail

ParseValue(s, i) ==
    LET j == SkipWs(s, i) IN
    IF j > Len(s) THEN ParseFail
    ELSE IF s[j] = 123
    THEN LET m == SkipWs(s, j + 1) IN
         IF m <= Len(s) /\ s[m] = 125
         THEN [ok |-> TRUE, v |-> [t |-> "obj", m |-> << >>], next |-> m + 1]
         ELSE ParseMembers(s, j + 1, << >>)
    ELSE IF s[j] = 34 THEN ParseString(s, j)
    ELSE IF IsDigit(s[j]) THEN ParseNumber(s, j)
    ELSE ParseNull(s, j)

\* JSON.parse(text): ok is FALSE where JSON.parse throws a SyntaxError
JSONParse(text) ==
    LET r == ParseValue(text, 1) IN
    IF r.ok /\ SkipWs(text, r.next) = Len(text) + 1
    THEN [ok |-> TRUE, v |-> r.v]
    ELSE [ok |-> FALSE, v |-> Null]

\* JavaScript truthiness of a parsed JSON value (manifest && ...)
Truthy(v) ==
    CASE v.t = "null" -> FALSE
      [] v.t = "str" -> v.s # << >>
      [] v.t = "num" -> v.n # 0
      [] OTHER -> TRUE

-----------------------------------------------------------------------------
(* The archives and the files a user can select *)

Member(name, bytes) ==
    [name |-> name, dir |-> FALSE, bytes |-> bytes, corrupt |-> FALSE]
Folder(name) ==
    [name |-> name, dir |-> TRUE, bytes |-> << >>, corrupt |-> FALSE]
Damaged(name, bytes) ==
    [name |-> name, dir |-> FALSE, bytes |-> bytes, corrupt |-> TRUE]
Archive(members) == [valid |-> TRUE, members |-> members]

ManifestName == <<"m","a","n","i","f","e","s","t",".","j","s","o","n">>

\* manifest.json = {"n":"T"} and popup.html = <p>
ArchGood ==
    Archive(<< Member(ManifestName, <<123, 34, 110, 34, 58, 34, 84, 34, 125>>),
               Member(<<"p",".","h","t","m","l">>, <<60, 112, 62>>) >>)

\* a folder, a manifest.json cut short ({"n"), and members after it
ArchBadManifest ==
    Archive(<< Folder(<<"d","/">>),
               Member(ManifestName, <<123, 34, 110, 34>>),
               Member(<<"d","/","i",".","p","n","g">>, <<104, 105>>),
               Member(<<"R",".","M","D">>, <<35>>) >>)

\* non-ASCII text, an empty member, bytes that are no UTF-8 under a text
\* name, and readable text under a name that is none
ArchUtf ==
    Archive(<< Member(<<"a",".","t","x","t">>, <<195, 169>>),
               Member(<<"e",".","m","d">>, << >>),
               Member(<<"d",".","j","s","o","n">>, <<255, 0>>),
               Member(<<"x",".","m","d","x">>, <<104, 105>>) >>)

\* the second member's compressed data does not inflate
ArchDamaged ==
    Archive(<< Member(<<"a",".","j","s">>, <<49>>),
               Damaged(<<"b",".","c","s","s">>, <<97>>),
               Member(<<"j","s">>, <<240, 159, 152, 128>>) >>)

ArchEmpty == Archive(<< >>)

NoArchive == [valid |-> FALSE, members |-> << >>]

ZeroHeader == [i \in 12..19 |-> 0]

Header(b12, b13, b15, b16, b17, b19) ==
    (12 :> b12) @@ (13 :> b13) @@ (14 :> b13) @@ (15 :> b15) @@
    (16 :> b16) @@ (17 :> b17) @@ (18 :> b17) @@ (19 :> b19)

Headers ==
    { Header(b12, b13, b15, b16, b17, b19) :
        b12 \in {0, 4, 252}, b13 \in {0, 255}, b15 \in {0, 255},
        b16 \in {0, 4, 8}, b17 \in {0, 255}, b19 \in {0, 255} }

File(name, len, hdr, zipAt, arch) ==
    [name |-> name, len |-> len, hdr |-> hdr, zipAt |-> zipAt, arch |-> arch]

CrxName == <<"e",".","c","r","x">>
ZipName == <<"e",".","z","i","p">>

\* signed packages: an archive behind a header, at byte 20 or at byte 24,
\* a buffer that ends inside the header, and one that holds no archive
CrxFiles ==
    { File(CrxName, 276, h, 20, ArchGood) : h \in Headers }
    \cup { File(CrxName, 60, h, 24, ArchGood) : h \in Headers }
    \cup { File(CrxName, 18, Header(4, 0, 0, 4, 0, 0), 0, NoArchive),
           File(CrxName, 40, Header(4, 0, 0, 4, 0, 0), 0, NoArchive) }

\* the signed packages of the whole-application specification
SomeCrxFiles ==
    { File(CrxName, 276, Header(4, 0, 0, 0, 0, 0), 20, ArchGood),
      File(CrxName, 276, Header(252, 255, 255, 8, 0, 0), 20, ArchGood),
      File(CrxName, 60, Header(4, 0, 0, 4, 0, 0), 24, ArchBadManifest),
      File(CrxName, 18, Header(4, 0, 0, 4, 0, 0), 0, NoArchive) }

ZipFiles ==
    { File(ZipName, 100, ZeroHeader, 0, a) :
        a \in {ArchGood, ArchBadManifest, ArchUtf, ArchDamaged, ArchEmpty,
               NoArchive} }

\* names that end neither in .crx nor in .zip
OtherFiles ==
    { File(n, 100, ZeroHeader, 0, ArchGood) :
        n \in { <<"e",".","t","x","t">>, <<"e",".","Z","I","P">>,
                <<"c","r","x">> } }

Files == SomeCrxFiles \cup ZipFiles \cup OtherFiles

-----------------------------------------------------------------------------
(* The signed-package header, lines 57-65 *)

\* view[i] under | and <<: an index past the end reads undefined, which
\* the bitwise operators coerce to 0
ViewByte(file, i) == IF i < file.len THEN file.hdr[i] ELSE 0

\* b0 | (b1 << 8) | (b2 << 16) | (b3 << 24): a signed 32-bit integer
Int32LE(b0, b1, b2, b3) ==
    b0 + b1 * 256 + b2 * 65536
       + (IF b3 < 128 THEN b3 ELSE b3 - 256) * 16777216

headerSize == 16

publicKeyLength(file) ==
    Int32LE(ViewByte(file, 12), ViewByte(file, 13), ViewByte(file, 14),
            ViewByte(file, 15))

signatureLength(file) ==
    Int32LE(ViewByte(file, 16), ViewByte(file, 17), ViewByte(file, 18),
            ViewByte(file, 19))

zipStartOffset(file) ==
    headerSize + publicKeyLength(file) + signatureLength(file)

\* ArrayBuffer.prototype.slice(begin): the index of the first byte kept
SliceStart(len, begin) ==
    IF begin < 0 THEN Max(len + begin, 0) ELSE Min(begin, len)

IsCrx(file) == EndsWith(file.name, <<".","c","r","x">>)
IsZip(file) == EndsWith(file.name, <<".","z","i","p">>)

\* zipData, as the index of its first byte in arrayBuffer (lines 57-68)
ZipDataStart(file) ==
    IF IsCrx(file) THEN SliceStart(file.len, zipStartOffset(file)) ELSE 0

\* zip.loadAsync(zipData) resolves when zipData holds the whole archive;
\* bytes in front of the archive are skipped by the library
LoadAsyncOk(file, first) == file.arch.valid /\ first <= file.zipAt

-----------------------------------------------------------------------------
(* One archive member, lines 77-97 *)

\* a || b on numbers, undefined being 0 here
JsOr(a, b) == IF a # 0 THEN a ELSE b

\* isText ? await zipEntry.async('text') : await zipEntry.async('arraybuffer')
EntryContent(member, isText) ==
    IF isText THEN [kind |-> "text", data |-> Utf8Decode(member.bytes)]
    ELSE [kind |-> "arraybuffer", data |-> member.bytes]

\* (content as string).length, undefined on an ArrayBuffer
LengthOf(content) == IF content.kind = "text" THEN Len(content.data) ELSE 0

\* (content as ArrayBuffer).byteLength, undefined on a string
ByteLengthOf(content) ==
    IF content.kind = "arraybuffer" THEN Len(content.data) ELSE 0

\* size: (content as string).length || (content as ArrayBuffer).byteLength || 0
EntrySize(content) == JsOr(JsOr(LengthOf(content), ByteLengthOf(content)), 0)

\* the object pushed on extractedFiles; origin records the call that made it
ExtractEntry(member, id) ==
    LET isText == IsTextName(member.name)
        content == EntryContent(member, isText)
    IN [name |-> member.name, size |-> EntrySize(content),
        content |-> content, isText |-> isText, origin |-> id]

\* a JSON.parse outside any try block
ManifestParseRethrows(text) == ~JSONParse(text).ok

\* whether an exception of JSON.parse leaves the try block of lines 92-96
ManifestParseAborts(text) == FALSE

\* manifestData after the member: assigned only when JSON.parse returns
ManifestAfter(manifestData, entry) ==
    IF entry.name = ManifestName /\ entry.isText
    THEN LET r == JSONParse(entry.content.data) IN
         IF r.ok THEN r.v ELSE manifestData
    ELSE manifestData

\* the next member from index i on that is no directory, Len + 1 if none
RECURSIVE NextFile(_, _)
NextFile(members, i) ==
    IF i > Len(members) THEN i
    ELSE IF ~members[i].dir THEN i
    ELSE NextFile(members, i + 1)

-----------------------------------------------------------------------------
(* The analyzer screen *)

NoCall == [id |-> 0, outcome |-> "none", file |-> Null]

Toast(kind, n) == [kind |-> kind, n |-> n]

\* the test of the name made after folding its case
IsAcceptedAnyCase(file) ==
    \/ EndsWith(ToLower(file.name), <<".","c","r","x">>)
    \/ EndsWith(ToLower(file.name), <<".","z","i","p">>)

\* file.name.endsWith('.crx') || file.name.endsWith('.zip'), line 42
IsAccepted(file) == IsCrx(file) \/ IsZip(file)

\* a file input that is never disabled
UploadAlwaysEnabled == TRUE

\* the file input takes a selection: disabled={isProcessing}, line 164
UploadEnabled == ~isProcessing

\* a slot that keeps the entries it held
NewFilesMerged(old, extractedFiles) == old \o extractedFiles

\* setFiles(extractedFiles), line 101
NewFiles(old, extractedFiles) == extractedFiles

Without(f, k) == [x \in DOMAIN f \ {k} |-> f[x]]

\* the catch and finally blocks, lines 110-119
FailUpload(id) ==
    /\ toasts' = Toast("Error", 0)
    /\ isProcessing' = FALSE
    /\ tasks' = Without(tasks, id)
    /\ last' = [id |-> id, outcome |-> "failed", file |-> tasks[id].file]
    /\ UNCHANGED <<files, manifest, selectedFile>>

\* lines 101-108 and the finally block
FinishUpload(id, extractedFiles, manifestData) ==
    /\ files' = NewFiles(files, extractedFiles)
    /\ manifest' = manifestData
    /\ selectedFile' = Null
    /\ toasts' = Toast("extracted", Len(extractedFiles))
    /\ isProcessing' = FALSE
    /\ tasks' = Without(tasks, id)
    /\ last' = [id |-> id, outcome |-> "success", file |-> tasks[id].file]

\* handleFileUpload up to its first await, lines 38-54
HandleFileUpload(file) ==
    /\ route = "/"
    /\ UploadEnabled
    /\ uploads < MaxUploads
    /\ uploads' = uploads + 1
    /\ IF ~IsAccepted(file)
       THEN /\ toasts' = Toast("invalid", 0)
            /\ last' = [id |-> uploads + 1, outcome |-> "rejected",
                        file |-> file]
            /\ UNCHANGED <<files, manifest, selectedFile, isProcessing, tasks>>
       ELSE /\ isProcessing' = TRUE
            /\ tasks' = tasks @@
                 ((uploads + 1) :>
                    [pc |-> "arrayBuffer", file |-> file,
                     zipStartOffset |-> 0, zipData |-> 0, idx |-> 0, extractedFiles |-> << >>,
                     manifestData |-> Null])
            /\ last' = NoCall
            /\ UNCHANGED <<files, manifest, selectedFile, toasts>>
    /\ UNCHANGED <<route, runnerVars, liveUrls, urlsCreated>>

\* file.arrayBuffer() resolved: lines 55-71, up to zip.loadAsync
ArrayBufferResolved(id) ==
    /\ id \in DOMAIN tasks
    /\ tasks[id].pc = "arrayBuffer"
    /\ tasks' = [tasks EXCEPT
                   ![id].pc = "loadAsync",
                   ![id].zipStartOffset =
                       IF IsCrx(tasks[id].file)
                       THEN zipStartOffset(tasks[id].file) ELSE 0,
                   ![id].zipData = ZipDataStart(tasks[id].file)]
    /\ UNCHANGED <<route, files, manifest, selectedFile, isProcessing, toasts,
                   uploads, last, runnerVars, liveUrls, urlsCreated>>

\* zip.loadAsync settled: lines 71-77, into the loop or to the catch block
LoadAsyncSettled(id) ==
    /\ id \in DOMAIN tasks
    /\ tasks[id].pc = "loadAsync"
    /\ LET t == tasks[id]
           n == NextFile(t.file.arch.members, 1)
       IN IF ~LoadAsyncOk(t.file, t.zipData)
          THEN FailUpload(id)
          ELSE IF n > Len(t.file.arch.members)
          THEN FinishUpload(id, << >>, Null)
          ELSE /\ tasks' = [tasks EXCEPT ![id].pc = "entry", ![id].idx = n]
               /\ UNCHANGED <<files, manifest, selectedFile, isProcessing,
                              toasts, last>>
    /\ UNCHANGED <<route, uploads, runnerVars, liveUrls, urlsCreated>>

\* zipEntry.async settled: lines 79-99, then lines 101-119 after the last
EntrySettled(id) ==
    /\ id \in DOMAIN tasks
    /\ tasks[id].pc = "entry"
    /\ LET t == tasks[id]
           member == t.file.arch.members[t.idx]
           entry == ExtractEntry(member, id)
           extracted == Append(t.extractedFiles, entry)
           md == ManifestAfter(t.manifestData, entry)
           n == NextFile(t.file.arch.members, t.idx + 1)
       IN IF member.corrupt
             \/ (entry.name = ManifestName /\ entry.isText
                 /\ ManifestParseAborts(entry.content.data))
          THEN FailUpload(id)
          ELSE IF n > Len(t.file.arch.members)
          THEN FinishUpload(id, extracted, md)
          ELSE /\ tasks' = [tasks EXCEPT ![id].idx = n,
                                         ![id].extractedFiles = extracted,
                                         ![id].manifestData = md]
               /\ UNCHANGED <<files, manifest, selectedFile, isProcessing,
                              toasts, last>>
    /\ UNCHANGED <<route, uploads, runnerVars, liveUrls, urlsCreated>>

\* onClick={() => setSelectedFile(file)}, inside {manifest && ...}
SelectFile(i) ==
    /\ route = "/"
    /\ Truthy(manifest)
    /\ i \in 1..Len(files)
    /\ selectedFile' = files[i]
    /\ UNCHANGED <<route, files, manifest, isProcessing, toasts, tasks,
                   uploads, last, runnerVars, liveUrls, urlsCreated>>

\* the files a download button is shown for: the list and the viewer
Downloadable ==
    (IF Truthy(manifest) THEN {files[i] : i \in 1..Len(files)} ELSE {})
    \cup (IF selectedFile # Null THEN {selectedFile} ELSE {})

\* downloadFile: the URL made at line 126 is revoked at line 133
DownloadFile(file) ==
    /\ route = "/"
    /\ file \in Downloadable
    /\ urlsCreated < MaxUrls
    /\ urlsCreated' = urlsCreated + 1
    /\ liveUrls' = (liveUrls \cup {urlsCreated + 1}) \ {urlsCreated + 1}
    /\ UNCHANGED <<route, analyzerVars, runnerVars>>

-----------------------------------------------------------------------------
(* The runner screen *)

ManifestObject ==
    [t |-> "obj", m |-> << [k |-> <<110>>, v |-> [t |-> "str", s |-> <<84>>]] >>]

RunnerFile(name, isText) ==
    [name |-> name, content |-> [kind |-> "text", data |-> <<60, 112, 62>>],
     isText |-> isText]

\* the values location.state?.extensionData can hold when it is present
ExtensionDatas ==
    { [manifest |-> ManifestObject,
       files |-> << RunnerFile(<<"a",".","j","s">>, TRUE),
                    RunnerFile(<<"p",".","h","t","m","l">>, TRUE) >>],
      [manifest |-> ManifestObject,
       files |-> << RunnerFile(<<"P",".","H","T","M","L">>, TRUE) >>],
      [manifest |-> Null, files |-> << >>] }

\* an effect that never takes the redirect
StateNeverAbsent(data) == FALSE

\* !data, line 28
StateAbsent(data) == data = Null

\* the render reads extensionData.manifest.name (line 143) unless
\* extensionData is null (line 123)
RenderThrows(data) == data # Null /\ data.manifest = Null

\* the useEffect of lines 26-33, run after the first render
RunnerEffect ==
    /\ route = "/runner"
    /\ runner = "mounted"
    /\ LET data == locationState IN
       IF StateAbsent(data)
       THEN /\ route' = "/"
            /\ runner' = "redirected"
            /\ UNCHANGED extensionData
       ELSE /\ extensionData' = data
            /\ runner' = IF RenderThrows(data) THEN "crashed" ELSE "ready"
            /\ UNCHANGED route
    /\ UNCHANGED <<analyzerVars, locationState, isRunning, extensionUrl,
                   liveUrls, urlsCreated>>

\* extensionData.files.find(file => file.name.endsWith('.html') && file.isText)
HasHtmlFile(data) ==
    \E i \in 1..Len(data.files) :
        EndsWith(data.files[i].name, <<".","h","t","m","l">>)
        /\ data.files[i].isText

\* the body of runExtension, lines 36-113, given the URLs live before it
RunBody(live) ==
    /\ urlsCreated < MaxUrls
    /\ urlsCreated' = urlsCreated + 1
    /\ liveUrls' = live \cup {urlsCreated + 1}
    /\ extensionUrl' = urlsCreated + 1
    /\ toasts' = IF HasHtmlFile(extensionData)
                 THEN Toast("loaded", 0) ELSE Toast("manifest", 0)
    /\ isRunning' = FALSE
    /\ UNCHANGED <<route, files, manifest, selectedFile, isProcessing, tasks,
                   uploads, last, locationState, extensionData, runner>>

\* the screen of lines 127-228 is rendered: extensionData is set (line 123)
RunnerShown == route = "/runner" /\ runner = "ready" /\ extensionData # Null

\* the Ejecutar button, onClick={runExtension} disabled={isRunning}
RunExtension ==
    /\ RunnerShown
    /\ ~isRunning
    /\ RunBody(liveUrls)

\* the Recargar button, shown when extensionUrl is set: lines 116-121
RefreshExtension ==
    /\ RunnerShown
    /\ ~isRunning
    /\ extensionUrl # 0
    /\ RunBody(liveUrls \ {extensionUrl})

\* the Volver al Analizador button, onClick={() => navigate('/')}
BackToAnalyzer ==
    /\ RunnerShown
    /\ route' = "/"
    /\ runner' = "left"
    /\ UNCHANGED <<analyzerVars, locationState, extensionData, isRunning,
                   extensionUrl, liveUrls, urlsCreated>>

-----------------------------------------------------------------------------
(* The application *)

Init ==
    /\ route \in {"/", "/runner"}
    /\ files = << >>
    /\ manifest = Null
    /\ selectedFile = Null
    /\ isProcessing = FALSE
    /\ toasts = Toast("none", 0)
    /\ tasks = << >>
    /\ uploads = 0
    /\ last = NoCall
    /\ locationState \in
         IF route = "/runner" THEN {Null} \cup ExtensionDatas ELSE {Null}
    /\ extensionData = Null
    /\ isRunning = FALSE
    /\ extensionUrl = 0
    /\ runner = IF route = "/runner" THEN "mounted" ELSE "none"
    /\ liveUrls = {}
    /\ urlsCreated = 0

Next ==
    \/ \E file \in Files : HandleFileUpload(file)
    \/ \E id \in DOMAIN tasks : ArrayBufferResolved(id)
    \/ \E id \in DOMAIN tasks : LoadAsyncSettled(id)
    \/ \E id \in DOMAIN tasks : EntrySettled(id)
    \/ \E i \in 1..Len(files) : SelectFile(i)
    \/ \E file \in Downloadable : DownloadFile(file)
    \/ RunnerEffect
    \/ RunExtension
    \/ RefreshExtension
    \/ BackToAnalyzer

Spec == Init /\ [][Next]_vars

\* uploads of signed packages alone, over every header of Headers
InitCrx == Init /\ route = "/"

NextCrx ==
    \/ \E file \in CrxFiles : HandleFileUpload(file)
    \/ \E id \in DOMAIN tasks : ArrayBufferResolved(id)
    \/ \E id \in DOMAIN tasks : LoadAsyncSettled(id)
    \/ \E id \in DOMAIN tasks : EntrySettled(id)

SpecCrx == InitCrx /\ [][NextCrx]_vars

-----------------------------------------------------------------------------
(* Notions the properties below are stated with *)

IsFileMember(m) == ~m.dir

\* the members of an archive that are no directories, in archive order
FileMembers(arch) == SelectSeq(arch.members, IsFileMember)

NamesOf(seq) == [i \in 1..Len(seq) |-> seq[i].name]

AllFrom(id) == \A i \in 1..Len(files) : files[i].origin = id

NoneFrom(id) == \A i \in 1..Len(files) : files[i].origin # id

Decodable(arch) ==
    arch.valid /\ \A i \in 1..Len(arch.members) : ~arch.members[i].corrupt

\* the name ends in .crx or in .zip, compared character by character
NamedCrxOrZip(name) ==
    /\ Len(name) >= 4
    /\ name[Len(name) - 3] = "."
    /\ \/ <<name[Len(name) - 2], name[Len(name) - 1], name[Len(name)]>>
            = <<"c","r","x">>
       \/ <<name[Len(name) - 2], name[Len(name) - 1], name[Len(name)]>>
            = <<"z","i","p">>

\* the index of the last "." of a name, 0 if it has none
RECURSIVE LastDot(_, _)
LastDot(name, i) ==
    IF i = 0 THEN 0 ELSE IF name[i] = "." THEN i ELSE LastDot(name, i - 1)

\* the name has an extension and it is one of the six, in any case
HasTextExtension(name) ==
    LET d == LastDot(name, Len(name)) IN
    /\ d > 0
    /\ ToLower(SubSeq(name, d + 1, Len(name))) \in TextExtensions

\* 16 + P + S for the unsigned 32-bit P and S of bytes 12-15 and 16-19, as
\* hi * 65536 + lo: the sum does not fit the model checker's integers
UnsignedOffset(file) ==
    LET h == file.hdr
        lo == 16 + (h[12] + 256 * h[13]) + (h[16] + 256 * h[17])
        hi == (h[14] + 256 * h[15]) + (h[18] + 256 * h[19]) + (lo \div 65536)
    IN [hi |-> hi, lo |-> lo % 65536]

Limbs(x) == [hi |-> x \div 65536, lo |-> x % 65536]

\* the unsigned offset is the index of a byte of the buffer
OffsetInside(file) ==
    UnsignedOffset(file).hi = 0 /\ UnsignedOffset(file).lo < file.len

\* the bytes from the unsigned offset to the end are a sound archive
ArchiveAtOffset(file) ==
    Decodable(file.arch) /\ UnsignedOffset(file) = Limbs(file.zipAt)

\* the descriptor an archive's manifest.json stands for, null if it has
\* none or its text is no JSON
ManifestOf(arch) ==
    LET at == {i \in 1..Len(arch.members) :
                 ~arch.members[i].dir /\ arch.members[i].name = ManifestName}
    IN IF at = {} THEN Null
       ELSE LET r == JSONParse(Utf8Decode(arch.members[CHOOSE i \in at : TRUE].bytes))
            IN IF r.ok THEN r.v ELSE Null

\* a step in which a handleFileUpload call returns
Returns(outcome) == last' # last /\ last'.outcome = outcome

-----------------------------------------------------------------------------
(* Properties *)

\* C1, as stated: once a handleFileUpload call has returned, whatever its
\* outcome, no entry of an earlier call is left in files or in selectedFile.
C1_DiscardsAlways ==
    last.id # 0 =>
        /\ AllFrom(last.id)
        /\ selectedFile = Null \/ selectedFile.origin = last.id

\* C1, amended: a call that succeeds leaves exactly its own entries in
\* files, its own manifest and no selected file; a call that is rejected or
\* fails leaves files, manifest and selectedFile as they were.
C1_ReplacedOnSuccess ==
    /\ [](last.outcome = "success" =>
            /\ AllFrom(last.id)
            /\ NamesOf(files) = NamesOf(FileMembers(last.file.arch))
            /\ manifest = ManifestOf(last.file.arch)
            /\ selectedFile = Null \/ selectedFile.origin = last.id)
    /\ [][(Returns("success") => selectedFile' = Null)
          /\ (Returns("failed") \/ Returns("rejected") =>
                UNCHANGED <<files, manifest, selectedFile>>)]_vars

C1_Witness ==
    /\ last.id = 2 /\ last.outcome = "success"
    /\ files # << >> /\ AllFrom(2)

\* C2, as stated: for a signed package whose fields are read inside the
\* buffer, a sound archive at the unsigned offset 16 + P + S is unpacked
\* when that offset is inside the buffer, and every offset outside the
\* buffer ends in the failure outcome with no entry of the call in files.
C2_SucceedsIffInside ==
    last.id # 0 /\ IsCrx(last.file) /\ last.file.len >= 20 =>
        /\ ArchiveAtOffset(last.file) /\ OffsetInside(last.file) =>
              last.outcome = "success"
        /\ ~OffsetInside(last.file) =>
              last.outcome = "failed" /\ NoneFrom(last.id)

\* C3, as stated: once the header is read, zipStartOffset is 16 + P + S for
\* the unsigned 32-bit P and S, and zipData starts at that offset (an
\* offset past the end leaving an empty payload).
C3_UnsignedOffset ==
    \A id \in DOMAIN tasks :
        LET t == tasks[id] IN
        t.pc # "arrayBuffer" /\ IsCrx(t.file) /\ t.file.len >= 20 =>
            /\ Limbs(t.zipStartOffset) = UnsignedOffset(t.file)
            /\ t.zipData = IF OffsetInside(t.file)
                           THEN UnsignedOffset(t.file).lo ELSE t.file.len

\* C4: a file whose name ends neither in .crx nor in .zip is never read or
\* unpacked; the call that selects it shows the invalid-input toast, leaves
\* isProcessing false and leaves files, manifest and selectedFile alone.
C4_RejectedUntouched ==
    /\ [](\A id \in DOMAIN tasks : NamedCrxOrZip(tasks[id].file.name))
    /\ [](last.id # 0 /\ ~NamedCrxOrZip(last.file.name) =>
            last.outcome = "rejected")
    /\ [][uploads' = uploads + 1 /\ last' # NoCall
            /\ ~NamedCrxOrZip(last'.file.name) =>
               /\ toasts' = Toast("invalid", 0)
               /\ ~isProcessing'
               /\ UNCHANGED <<files, manifest, selectedFile, isProcessing,
                              tasks>>]_vars

C4_Witness ==
    /\ last.outcome = "rejected"
    /\ ~NamedCrxOrZip(last.file.name)
    /\ toasts = Toast("invalid", 0)
    /\ files # << >>

\* the archive has a manifest.json whose text JSON.parse does not accept
MalformedManifest(arch) ==
    \E i \in 1..Len(arch.members) :
        /\ ~arch.members[i].dir
        /\ arch.members[i].name = ManifestName
        /\ ~JSONParse(Utf8Decode(arch.members[i].bytes)).ok

\* C5: an archive that loads and inflates, and whose manifest.json is
\* malformed, ends in the success outcome with manifest null and with every
\* member that is no directory in files, manifest.json and the members
\* after it included.
C5_BadManifestKeepsFiles ==
    /\ last.id # 0
    /\ IsAccepted(last.file)
    /\ LoadAsyncOk(last.file, ZipDataStart(last.file))
    /\ Decodable(last.file.arch)
    /\ MalformedManifest(last.file.arch)
    => /\ last.outcome = "success"
       /\ manifest = Null
       /\ files # << >>
       /\ NamesOf(files) = NamesOf(FileMembers(last.file.arch))
       /\ toasts = Toast("extracted", Len(files))

C5_Witness ==
    /\ last.outcome = "success"
    /\ MalformedManifest(last.file.arch)
    /\ manifest = Null
    /\ Len(files) = 3
    /\ files[1].name = ManifestName

\* C6: at most one handleFileUpload call is suspended at an await at any
\* time, isProcessing is true exactly while one is, and the entries of
\* files all come from one call.
C6_OneInFlight ==
    /\ Cardinality(DOMAIN tasks) <= 1
    /\ isProcessing <=> DOMAIN tasks # {}
    /\ \A i, j \in 1..Len(files) : files[i].origin = files[j].origin

C6_Witness ==
    /\ isProcessing
    /\ \E id \in DOMAIN tasks : tasks[id].pc = "entry" /\ id = 2
    /\ files # << >>

\* C7, as stated: at most one object URL is live at any time.
C7_OneLiveUrl == Cardinality(liveUrls) <= 1

\* C8, as stated: after a plain archive is unpacked, files holds one entry
\* for each member that is no directory and nothing else, each with the
\* member's path, a size equal to the number of bytes of its content (0 for
\* an empty member) and, for a binary entry, those bytes.
C8_EntriesAreMembers ==
    last.outcome = "success" /\ IsZip(last.file) =>
        LET ms == FileMembers(last.file.arch) IN
        /\ Len(files) = Len(ms)
        /\ \A i \in 1..Len(ms) :
              /\ files[i].name = ms[i].name
              /\ files[i].size = Len(ms[i].bytes)
              /\ ~files[i].isText => files[i].content.data = ms[i].bytes

\* C9: once the effect of the runner has run, a missing navigation state
\* has sent the router back to "/" with no extension data stored and no
\* preview URL made, and a present one is stored without a redirect.
C9_RedirectIffAbsent ==
    runner \notin {"none", "mounted"} =>
        IF locationState = Null
        THEN /\ runner = "redirected"
             /\ route = "/"
             /\ extensionData = Null
             /\ extensionUrl = 0
        ELSE /\ runner # "redirected"
             /\ extensionData = locationState

C9_Witness ==
    /\ runner = "redirected"
    /\ locationState = Null
    /\ route = "/"

EntriesSeen ==
    {files[i] : i \in 1..Len(files)}
    \cup UNION { {tasks[id].extractedFiles[i] :
                    i \in 1..Len(tasks[id].extractedFiles)} :
                 id \in DOMAIN tasks }

\* C10: every extracted entry is text exactly when its path has one of the
\* extensions json, js, html, css, txt, md in any case, whatever its bytes,
\* and its content is a decoded string when it is text and the raw bytes
\* otherwise.
C10_TextByExtension ==
    \A e \in EntriesSeen :
        /\ e.isText <=> HasTextExtension(e.name)
        /\ e.content.kind = IF e.isText THEN "text" ELSE "arraybuffer"

C10_Witness ==
    /\ \E e \in EntriesSeen :
          /\ e.name = <<"d",".","j","s","o","n">>
          /\ e.isText
          /\ e.content = [kind |-> "text", data |-> <<65533, 0>>]
    /\ \E e \in EntriesSeen :
          /\ e.name = <<"x",".","m","d","x">>
          /\ ~e.isText
          /\ e.content = [kind |-> "arraybuffer", data |-> <<104, 105>>]

====
